---- MODULE Spec2Model ----
(***************************************************************************)
(* influxdbcli.py: the `tasks retry` command.                              *)
(*                                                                         *)
(* The model follows one invocation of the script from the point where    *)
(* the service client is opened (line 126) to process exit: tasks_retry   *)
(* (fetch, deduplication pass, retry loop), _monitor_runs (polling loop)  *)
(* and the try/except/finally of __main__.  The remote service is the     *)
(* environment: it answers each call with a result or an exception and    *)
(* moves the runs created by retry requests towards a terminal status.    *)
(***************************************************************************)
EXTENDS Integers, Sequences, FiniteSets, TLC

\* ---------------------------------------------------------------- bounds
MaxRuns == 2
NumSlots == 2
MaxT == 2
MaxDays == 1

\* ------------------------------------------------------------ data model
\* Python's None for an absent started_at; datetimes are 1..MaxT.
None == 0

Slots == 1..NumSlots
Times == 1..MaxT
Statuses == {"scheduled", "running", "success", "failed"}
Terminal == {"success", "failed"}

\* A run record as returned by the tasks API.
Run == [id : 1..MaxRuns, scheduled_for : Slots, started_at : {None} \cup Times,
        status : Statuses]

\* What the service can hold for one run: a run not started yet is "scheduled",
\* or "failed" without ever having started; "running" and "success" imply a
\* started-at.
ValidRun(r) ==
    /\ r.status = "scheduled" => r.started_at = None
    /\ r.status \in {"running", "success"} => r.started_at # None

\* The lists get_runs can return: run ids are distinct (position in the list).
RunLists ==
    UNION {{s \in [1..n -> Run] : \A j \in 1..n : s[j].id = j /\ ValidRun(s[j])} :
           n \in 0..MaxRuns}

VARIABLES
    args,          \* parsed arguments: [all_failed : BOOLEAN]
    pc,            \* position of the invocation
    client,        \* "unbound" | "open" | "closed"
    exc,           \* exception in flight: "none" | exception class name
    runs,          \* tasks_retry: the fetched list
    i,             \* tasks_retry: position of the deduplication loop (1-based)
    run_map,       \* tasks_retry: ordered dict, a sequence of [key, run]
    k,             \* tasks_retry: position of the retry loop over run_map.values()
    retried_runs,  \* tasks_retry: list of new runs; _monitor_runs' `runs` (same list)
    it,            \* _monitor_runs: index of the list iterator of the for loop
    svc,           \* service side: status of each run created by a retry
    out,           \* kinds of report lines printed
    listCalls,     \* number of get_runs calls made
    retryReqs,     \* run ids passed to retry_run, in order
    polled,        \* run ids passed to get_run by _monitor_runs
    lastFetch,     \* _monitor_runs: the last get_run, [id, outcome, status]
    terminalSeen,  \* run ids a successful get_run reported in a terminal status
    stale,         \* run ids whose failed get_run has not been followed by another
    cycle,         \* _monitor_runs: the current pass of the for loop, [active, fetched]
    evt,           \* last request or wait of tasks_retry and _monitor_runs
    printed,       \* tasks_runs: the summary lines printed, in order
    closeFault     \* TRUE when client.close() of the finally block raised

vars == <<args, pc, client, exc, runs, i, run_map, k, retried_runs, it, svc, out,
          listCalls, retryReqs, polled, lastFetch, terminalSeen, stale, cycle, evt, printed,
          closeFault>>

retryVars == <<runs, i, run_map, k, retried_runs>>
monVars == <<it, lastFetch, terminalSeen, stale, polled, cycle>>

NoFetch == [id |-> 0, outcome |-> "none", status |-> "none"]
NoCycle == [active |-> {}, fetched |-> <<>>]

\* ------------------------------------------------------------------ Init
\* The state when line 126 is reached, whatever the command.
Start ==
    /\ pc = "open"
    /\ client = "unbound"
    /\ exc = "none"
    /\ runs = <<>>
    /\ i = 1
    /\ run_map = <<>>
    /\ k = 1
    /\ retried_runs = <<>>
    /\ it = 1
    /\ svc = <<>>
    /\ out = {}
    /\ listCalls = 0
    /\ retryReqs = <<>>
    /\ polled = {}
    /\ lastFetch = NoFetch
    /\ terminalSeen = {}
    /\ stale = {}
    /\ cycle = NoCycle
    /\ evt = "none"
    /\ printed = <<>>
    /\ closeFault = FALSE

\* `tasks retry`: args.func is tasks_retry (line 102).
Init ==
    /\ args \in [all_failed : BOOLEAN]
    /\ Start

\* ------------------------------------------------------- ordered dict ops
\* str(run.scheduled_for): the dict key of a slot.
Key(run) == ToString(run.scheduled_for)

\* run_map.get(key): the run stored under key, or <<>> for None.
HasKey(map, key) == \E j \in 1..Len(map) : map[j].key = key
Get(map, key) == map[CHOOSE j \in 1..Len(map) : map[j].key = key].run

\* run_map[key] = run: a new key goes last, an existing key keeps its place.
Put(map, key, run) ==
    IF HasKey(map, key)
    THEN [j \in 1..Len(map) |-> IF map[j].key = key THEN [key |-> key, run |-> run]
                                                    ELSE map[j]]
    ELSE Append(map, [key |-> key, run |-> run])

\* Values going through the map from its last entry to its first.
Values_Reversed(map) == [j \in 1..Len(map) |-> map[Len(map) + 1 - j].run]

\* run_map.values(), in insertion order.
Values(map) == [j \in 1..Len(map) |-> map[j].run]

\* ReplaceTest with the comparison reversed: the earliest started run wins.
ReplaceTest_Earliest(run, current) ==
    IF run.started_at = None THEN "replace"
    ELSE IF current.started_at = None THEN "TypeError"
    ELSE IF run.started_at < current.started_at THEN "replace"
    ELSE "keep"

\* Line 24, evaluated left to right with short-circuit `or`:
\*   not run.started_at  or  run.started_at > current.started_at
\* A datetime compared with None raises TypeError.
ReplaceTest(run, current) ==
    IF run.started_at = None THEN "replace"
    ELSE IF current.started_at = None THEN "TypeError"
    ELSE IF run.started_at > current.started_at THEN "replace"
    ELSE "keep"

\* Selected testing for "anything but success".
Selected_NotSuccess(run) == run.status # "success"

\* Line 27: the retry selection test.
Selected(run) == run.status = "failed"

\* RemoveFirst dropping the last element of the list whatever x is.
RemoveFirst_Last(seq, x) == SubSeq(seq, 1, Len(seq) - 1)

\* list.remove(x): drops the first element equal to x.
RemoveFirst(seq, x) ==
    LET p == CHOOSE j \in 1..Len(seq) : seq[j] = x /\ \A h \in 1..(j-1) : seq[h] # x
    IN  [j \in 1..(Len(seq)-1) |-> IF j < p THEN seq[j] ELSE seq[j+1]]

\* IsTerminal that knows "success" only.
IsTerminal_SuccessOnly(status) == status = "success"

\* IsTerminal accepting every status of a run that has started.
IsTerminal_Started(status) == status # "scheduled"

\* Line 75: the status test that ends the polling of a run.
IsTerminal(status) == status = "success" \/ status = "failed"

\* The run the service creates for a retry request: a new identifier, the same
\* slot, not started, status reset.
NewRun(old) ==
    [id |-> MaxRuns + Cardinality(DOMAIN svc) + 1, scheduled_for |-> old.scheduled_for,
     started_at |-> None, status |-> "scheduled"]

\* -------------------------------------------------------------- __main__
\* Lines 126-128: build the Retry policy and the client.  An exception on
\* these lines leaves the name `client` unbound.
OpenClient ==
    /\ pc = "open"
    /\ \/ /\ client' = "open"
          /\ pc' = "dispatch"
          /\ exc' = exc
       \/ /\ exc' \in {"KeyError", "NewConnectionError"}
          /\ pc' = "except"
          /\ client' = client
    /\ UNCHANGED <<args, printed, evt, retryVars, monVars, svc, out, listCalls,
                   retryReqs, closeFault>>

\* Lines 130-131: the only handler of the try statement.
ExceptClause ==
    /\ pc = "except"
    /\ IF exc = "NewConnectionError"
       THEN /\ out' = out \cup {"Unable to connect to InfluxDB"}
            /\ exc' = "none"
       ELSE UNCHANGED <<out, exc>>
    /\ pc' = "finally"
    /\ UNCHANGED <<args, printed, evt, client, retryVars, monVars, svc, listCalls,
                   retryReqs, closeFault>>

\* Lines 132-133: client.close(); with `client` unbound the call raises NameError.
FinallyClause ==
    /\ pc = "finally"
    /\ IF client = "unbound"
       THEN /\ closeFault' = TRUE
            /\ exc' = "NameError"
            /\ client' = client
       ELSE /\ client' = "closed"
            /\ UNCHANGED <<closeFault, exc>>
    /\ pc' = "exit"
    /\ UNCHANGED <<args, printed, evt, retryVars, monVars, svc, out, listCalls,
                   retryReqs>>

\* ----------------------------------------------------------- tasks_retry
\* TasksRetryEntry without the --all-failed test.
TasksRetryEntry_IgnoreFlag ==
    /\ pc = "dispatch"
    /\ pc' = "get_runs"
    /\ UNCHANGED <<args, printed, evt, client, exc, retryVars, monVars, svc, out,
                   listCalls, retryReqs, closeFault>>

\* Lines 129, 13-14, 37-38: dispatch and the --all-failed test.
TasksRetryEntry ==
    /\ pc = "dispatch"
    /\ IF args.all_failed
       THEN pc' = "get_runs" /\ out' = out
       ELSE pc' = "finally" /\ out' = out \cup {"Nothing to do."}
    /\ UNCHANGED <<args, printed, evt, client, exc, retryVars, monVars, svc, listCalls,
                   retryReqs, closeFault>>

\* Lines 15-18: fetch the last 500 runs.
GetRuns ==
    /\ pc = "get_runs"
    /\ listCalls' = listCalls + 1
    /\ \/ /\ runs' \in RunLists
          /\ run_map' = <<>>
          /\ retried_runs' = <<>>
          /\ i' = 1
          /\ pc' = "dedup"
          /\ exc' = exc
       \/ /\ exc' \in {"ApiException", "NewConnectionError"}
          /\ pc' = "except"
          /\ UNCHANGED <<runs, run_map, retried_runs, i>>
    /\ UNCHANGED <<args, printed, evt, client, k, monVars, svc, out, retryReqs,
                   closeFault>>

\* Lines 19-25: one iteration of the deduplication loop.
DedupStep ==
    /\ pc = "dedup"
    /\ i <= Len(runs)
    /\ LET run == runs[i]
           run_scheduled_for == Key(run)
       IN  IF ~HasKey(run_map, run_scheduled_for)
           THEN /\ run_map' = Put(run_map, run_scheduled_for, run)
                /\ i' = i + 1
                /\ UNCHANGED <<pc, exc>>
           ELSE LET t == ReplaceTest(run, Get(run_map, run_scheduled_for))
                IN  IF t = "TypeError"
                    THEN /\ exc' = "TypeError"
                         /\ pc' = "except"
                         /\ UNCHANGED <<run_map, i>>
                    ELSE /\ run_map' = IF t = "replace"
                                       THEN Put(run_map, run_scheduled_for, run)
                                       ELSE run_map
                         /\ i' = i + 1
                         /\ UNCHANGED <<pc, exc>>
    /\ UNCHANGED <<args, printed, evt, client, runs, k, retried_runs, monVars, svc, out,
                   listCalls, retryReqs, closeFault>>

\* Line 19 -> 26: the deduplication loop is exhausted.
DedupDone ==
    /\ pc = "dedup"
    /\ i > Len(runs)
    /\ pc' = "retry"
    /\ k' = 1
    /\ UNCHANGED <<args, printed, evt, client, exc, runs, i, run_map, retried_runs,
                   monVars, svc, out, listCalls, retryReqs, closeFault>>

\* Lines 26-27: a representative that is not selected is passed over.
RetrySkip ==
    /\ pc = "retry"
    /\ k <= Len(run_map)
    /\ ~Selected(Values(run_map)[k])
    /\ k' = k + 1
    /\ UNCHANGED <<args, printed, evt, pc, client, exc, runs, i, run_map, retried_runs,
                   monVars, svc, out, listCalls, retryReqs, closeFault>>

\* RetryRun putting the old run, not the run returned, on retried_runs.
RetryRun_AppendsOld ==
    /\ pc = "retry"
    /\ k <= Len(run_map)
    /\ LET run == Values(run_map)[k]
       IN  /\ Selected(run)
           /\ retryReqs' = Append(retryReqs, run.id)
           /\ \/ /\ retried_runs' = Append(retried_runs, run)
                 /\ svc' = svc @@ (NewRun(run).id :> "unindexed")
                 /\ k' = k + 1
                 /\ evt' = "sleep(1)"
                 /\ UNCHANGED <<pc, exc>>
              \/ /\ exc' \in {"ApiException", "NewConnectionError"}
                 /\ pc' = "except"
                 /\ evt' = "retry_run"
                 /\ UNCHANGED <<retried_runs, svc, k>>
    /\ UNCHANGED <<args, printed, client, runs, i, run_map, monVars, out, listCalls,
                   closeFault>>

\* Lines 26-32: retry_run for a selected representative, then sleep(1).
\* retry_run is called outside any try statement of tasks_retry.
RetryRun ==
    /\ pc = "retry"
    /\ k <= Len(run_map)
    /\ LET run == Values(run_map)[k]
       IN  /\ Selected(run)
           /\ retryReqs' = Append(retryReqs, run.id)
           /\ \/ /\ retried_runs' = Append(retried_runs, NewRun(run))
                 /\ svc' = svc @@ (NewRun(run).id :> "unindexed")
                 /\ k' = k + 1
                 /\ evt' = "sleep(1)"
                 /\ UNCHANGED <<pc, exc>>
              \/ /\ exc' \in {"ApiException", "NewConnectionError"}
                 /\ pc' = "except"
                 /\ evt' = "retry_run"
                 /\ UNCHANGED <<retried_runs, svc, k>>
    /\ UNCHANGED <<args, printed, client, runs, i, run_map, monVars, out, listCalls,
                   closeFault>>

\* RetryDone with the test of line 33 reversed.
RetryDone_TestReversed ==
    /\ pc = "retry"
    /\ k > Len(run_map)
    /\ IF Len(retried_runs) # 0
       THEN /\ out' = out \cup {"No failed runs detected in the last 500 runs."}
            /\ pc' = "finally"
       ELSE /\ out' = out
            /\ pc' = "while"
    /\ runs' = <<>>
    /\ run_map' = <<>>
    /\ i' = 1
    /\ k' = 1
    /\ UNCHANGED <<args, printed, evt, client, exc, retried_runs, monVars, svc,
                   listCalls, retryReqs, closeFault>>

\* Lines 33-36: after the retry loop.  Line 34 or 36 is the last statement of
\* tasks_retry: its locals runs and run_map (and the two loop positions) are
\* never read again, and the model drops them here.  retried_runs lives on as
\* the `runs` parameter of _monitor_runs.
RetryDone ==
    /\ pc = "retry"
    /\ k > Len(run_map)
    /\ IF Len(retried_runs) = 0
       THEN /\ out' = out \cup {"No failed runs detected in the last 500 runs."}
            /\ pc' = "finally"
       ELSE /\ out' = out
            /\ pc' = "while"
    /\ runs' = <<>>
    /\ run_map' = <<>>
    /\ i' = 1
    /\ k' = 1
    /\ UNCHANGED <<args, printed, evt, client, exc, retried_runs, monVars, svc,
                   listCalls, retryReqs, closeFault>>

\* --------------------------------------------------------- _monitor_runs
\* Line 70: the while test; a new iterator over the list when it holds.
MonitorWhile ==
    /\ pc = "while"
    /\ IF Len(retried_runs) > 0
       THEN /\ pc' = "for"
            /\ it' = 1
            /\ cycle' = [active |-> {retried_runs[j].id : j \in 1..Len(retried_runs)},
                         fetched |-> <<>>]
       ELSE /\ pc' = "finally"
            /\ UNCHANGED <<it, cycle>>
    /\ UNCHANGED <<args, printed, evt, client, exc, retryVars, svc, out, listCalls,
                   retryReqs, polled, lastFetch, terminalSeen, stale, closeFault>>

\* Line 71: the list iterator is exhausted (its index is past the end of the list
\* as it is now).
MonitorForEnd ==
    /\ pc = "for"
    /\ it > Len(retried_runs)
    /\ pc' = "while"
    /\ UNCHANGED <<args, printed, evt, client, exc, retryVars, monVars, svc, out,
                   listCalls, retryReqs, closeFault>>

\* What get_run answers for run id: the record when the service has indexed it,
\* 404 when not yet, or a failure of the call.
FetchResults(id) ==
    (IF svc[id] = "unindexed"
     THEN {[id |-> id, outcome |-> "api404", status |-> "none"]}
     ELSE {[id |-> id, outcome |-> "ok", status |-> svc[id]]})
    \cup {[id |-> id, outcome |-> "apiErr", status |-> "none"],
          [id |-> id, outcome |-> "connErr", status |-> "none"]}

\* Lines 71-82: one iteration of the for loop: get_run, the status test and
\* remove, the ApiException handler, sleep(2).  The iterator has advanced
\* before the body runs; remove shifts the elements behind the removed one.
MonitorPoll ==
    /\ pc = "for"
    /\ it <= Len(retried_runs)
    /\ LET run == retried_runs[it]
       IN  /\ it' = it + 1
           /\ polled' = polled \cup {run.id}
           /\ cycle' = [cycle EXCEPT !.fetched = Append(@, run.id)]
           /\ \E f \in FetchResults(run.id) :
                /\ lastFetch' = f
                /\ terminalSeen' = IF f.outcome = "ok" /\ f.status \in Terminal
                                   THEN terminalSeen \cup {run.id}
                                   ELSE terminalSeen
                /\ stale' = IF run.id \in stale THEN stale \ {run.id}
                            ELSE IF f.outcome \in {"api404", "apiErr"}
                            THEN stale \cup {run.id}
                            ELSE stale
                /\ evt' = IF f.outcome = "connErr" THEN "get_run" ELSE "sleep(2)"
                /\ IF f.outcome = "ok"
                   THEN /\ retried_runs' = IF IsTerminal(f.status)
                                           THEN RemoveFirst(retried_runs, run)
                                           ELSE retried_runs
                        /\ UNCHANGED <<pc, exc>>
                   ELSE IF f.outcome = "connErr"
                   THEN /\ exc' = "NewConnectionError"
                        /\ pc' = "except"
                        /\ UNCHANGED retried_runs
                   ELSE UNCHANGED <<retried_runs, pc, exc>>
    /\ UNCHANGED <<args, printed, client, runs, i, run_map, k, svc, out, listCalls,
                   retryReqs, closeFault>>

\* ------------------------------------------------------------ the service
\* A run created by a retry is indexed, runs, and ends in a terminal status,
\* which it keeps.
ServiceAdvance ==
    /\ \E id \in DOMAIN svc :
         \/ /\ svc[id] = "unindexed"
            /\ svc' = [svc EXCEPT ![id] = "running"]
         \/ /\ svc[id] = "running"
            /\ \E st \in Terminal : svc' = [svc EXCEPT ![id] = st]
    /\ UNCHANGED <<args, printed, evt, pc, client, exc, retryVars, monVars, out,
                   listCalls, retryReqs, closeFault>>


\* ------------------------------------------------------------ tasks runs
\* timedelta.seconds lies in 0..86399: the days of a difference are a separate
\* attribute.
Day == 86400

\* A run as tasks_runs reads it: started-at is absent or 1, finished-at is
\* absent or 2 seconds past a whole number of days.  (status and task_id are
\* only echoed into the line.)
FinishStamps == {d * Day + 2 : d \in 0..MaxDays}
ListedRun == [id : 1..MaxRuns, scheduled_for : Slots, started_at : {None, 1},
              finished_at : {None} \cup FinishStamps]
ListedRunLists ==
    UNION {{s \in [1..n -> ListedRun] : \A j \in 1..n : s[j].id = j} : n \in 0..MaxRuns}

\* An option that was not given is None (argparse default).
Absent == "<None>"

\* The text of time t in the format '%Y-%m-%dT%H:%M:%SZ'.
Format(t) == ToString(t)

\* The --after values tried: not given, the empty string, the text of a time
\* around the slots, and a text that is no time.
AfterArgs == {Absent, "", "yesterday"} \cup {Format(t) : t \in 1..(NumSlots + 1)}
RunIdArgs == {Absent, "r1"}

\* Python truth of an option value: None and '' are false.
Truthy(v) == v \notin {Absent, ""}

\* datetime.strptime(text, '%Y-%m-%dT%H:%M:%SZ'), localized to UTC: the time
\* whose text it is, or ValueError.
Parses(text) == \E t \in 0..(NumSlots + 1) : Format(t) = text
Strptime(text) == CHOOSE t \in 0..(NumSlots + 1) : Format(t) = text

\* FilterTest with a strict comparison.
FilterTest_Strict(run, after) ==
    IF Truthy(after)
    THEN IF ~Parses(after) THEN "ValueError"
         ELSE IF run.scheduled_for > Strptime(after) THEN "show" ELSE "hide"
    ELSE "show"

\* Line 51, evaluated left to right:
\*   (args.after and run.scheduled_for >= localize(strptime(args.after)))
\*   or (not args.after)
FilterTest(run, after) ==
    IF Truthy(after)
    THEN IF ~Parses(after) THEN "ValueError"
         ELSE IF run.scheduled_for >= Strptime(after) THEN "show" ELSE "hide"
    ELSE "show"

\* Line 55: (run.finished_at - run.started_at).seconds; a subtraction with None
\* raises TypeError.
CanPrint(run) == run.started_at # None /\ run.finished_at # None
Seconds(delta) == delta % Day
SummaryLine(run) ==
    [id |-> run.id, duration |-> Seconds(run.finished_at - run.started_at)]

\* `tasks runs`: args.func is tasks_runs (line 109).
InitRuns ==
    /\ args \in [after : AfterArgs, run_id : RunIdArgs]
    /\ Start

\* Lines 129, 40-43: dispatch and the --run-id test.
TasksRunsEntry ==
    /\ pc = "dispatch"
    /\ pc' = IF Truthy(args.run_id) THEN "runs_get_run" ELSE "runs_get_runs"
    /\ UNCHANGED <<args, printed, evt, client, exc, retryVars, monVars, svc, out,
                   listCalls, retryReqs, closeFault>>

\* Line 44: fetch the run named by --run-id.
RunsGetRun ==
    /\ pc = "runs_get_run"
    /\ \/ /\ \E r \in ListedRun : r.id = 1 /\ runs' = <<r>>
          /\ pc' = "runs_print_one"
          /\ exc' = exc
       \/ /\ exc' \in {"ApiException", "NewConnectionError"}
          /\ pc' = "except"
          /\ runs' = runs
    /\ UNCHANGED <<args, printed, evt, client, i, run_map, k, retried_runs, monVars, svc,
                   out, listCalls, retryReqs, closeFault>>

\* Lines 45-46: the summary line, then the log of the run.
RunsPrintOne ==
    /\ pc = "runs_print_one"
    /\ IF CanPrint(runs[1])
       THEN /\ printed' = Append(printed, SummaryLine(runs[1]))
            /\ out' = out \cup {"log"}
            /\ pc' = "finally"
            /\ exc' = exc
       ELSE /\ exc' = "TypeError"
            /\ pc' = "except"
            /\ UNCHANGED <<printed, out>>
    /\ UNCHANGED <<args, evt, client, retryVars, monVars, svc, listCalls, retryReqs,
                   closeFault>>

\* Lines 48-49: fetch the most recent runs.
RunsGetRuns ==
    /\ pc = "runs_get_runs"
    /\ listCalls' = listCalls + 1
    /\ \/ /\ runs' \in ListedRunLists
          /\ i' = 1
          /\ pc' = "runs_loop"
          /\ exc' = exc
       \/ /\ exc' \in {"ApiException", "NewConnectionError"}
          /\ pc' = "except"
          /\ UNCHANGED <<runs, i>>
    /\ UNCHANGED <<args, printed, evt, client, run_map, k, retried_runs, monVars, svc, out,
                   retryReqs, closeFault>>

\* Lines 50-52: one iteration of the list loop: the filter test, then
\* _print_task_run for a run that passes.
RunsLoopStep ==
    /\ pc = "runs_loop"
    /\ i <= Len(runs)
    /\ LET run == runs[i]
           t == FilterTest(run, args.after)
       IN  IF t = "ValueError"
           THEN /\ exc' = "ValueError"
                /\ pc' = "except"
                /\ UNCHANGED <<printed, i>>
           ELSE IF t = "show" /\ ~CanPrint(run)
           THEN /\ exc' = "TypeError"
                /\ pc' = "except"
                /\ UNCHANGED <<printed, i>>
           ELSE /\ printed' = IF t = "show" THEN Append(printed, SummaryLine(run))
                                            ELSE printed
                /\ i' = i + 1
                /\ UNCHANGED <<pc, exc>>
    /\ UNCHANGED <<args, evt, client, runs, run_map, k, retried_runs, monVars, svc, out,
                   listCalls, retryReqs, closeFault>>

\* Line 50: the list is exhausted; tasks_runs returns.
RunsLoopDone ==
    /\ pc = "runs_loop"
    /\ i > Len(runs)
    /\ pc' = "finally"
    /\ UNCHANGED <<args, printed, evt, client, exc, retryVars, monVars, svc, out,
                   listCalls, retryReqs, closeFault>>

NextRuns ==
    \/ OpenClient
    \/ ExceptClause
    \/ FinallyClause
    \/ TasksRunsEntry
    \/ RunsGetRun
    \/ RunsPrintOne
    \/ RunsGetRuns
    \/ RunsLoopStep
    \/ RunsLoopDone

SpecRuns == InitRuns /\ [][NextRuns]_vars

Next ==
    \/ OpenClient
    \/ ExceptClause
    \/ FinallyClause
    \/ TasksRetryEntry
    \/ GetRuns
    \/ DedupStep
    \/ DedupDone
    \/ RetrySkip
    \/ RetryRun
    \/ RetryDone
    \/ MonitorWhile
    \/ MonitorForEnd
    \/ MonitorPoll
    \/ ServiceAdvance

Spec == Init /\ [][Next]_vars

\* The script is one sequential process that keeps executing: a statement that
\* can run does run.  Nothing is assumed of the service.
Program ==
    \/ OpenClient \/ ExceptClause \/ FinallyClause \/ TasksRetryEntry \/ GetRuns
    \/ DedupStep \/ DedupDone \/ RetrySkip \/ RetryRun \/ RetryDone
    \/ MonitorWhile \/ MonitorForEnd \/ MonitorPoll

FairSpec == Spec /\ WF_vars(Program)

\* ------------------------------------------- _monitor_runs on its own
\* The states in which _monitor_runs is entered (line 36): n retry requests
\* have returned n new runs, none indexed yet; the locals of tasks_retry are
\* dropped.  _monitor_runs reads the identifiers of the runs only, so the runs
\* retried are taken to be the first n fetched, one per slot.
NewIds == (MaxRuns + 1)..(2 * MaxRuns)
EntryRuns(n) ==
    [j \in 1..n |-> [id |-> MaxRuns + j, scheduled_for |-> j, started_at |-> None,
                     status |-> "scheduled"]]

InitMonitor ==
    /\ args = [all_failed |-> TRUE]
    /\ pc = "while"
    /\ client = "open"
    /\ exc = "none"
    /\ runs = <<>>
    /\ i = 1
    /\ run_map = <<>>
    /\ k = 1
    /\ \E n \in 1..(IF MaxRuns < NumSlots THEN MaxRuns ELSE NumSlots) :
          /\ retried_runs = EntryRuns(n)
          /\ retryReqs = [j \in 1..n |-> j]
          /\ svc = [id \in (MaxRuns + 1)..(MaxRuns + n) |-> "unindexed"]
    /\ it = 1
    /\ out = {}
    /\ listCalls = 1
    /\ polled = {}
    /\ lastFetch = NoFetch
    /\ terminalSeen = {}
    /\ stale = {}
    /\ cycle = NoCycle
    /\ evt = "sleep(1)"
    /\ printed = <<>>
    /\ closeFault = FALSE

NextMonitor ==
    \/ MonitorWhile
    \/ MonitorForEnd
    \/ MonitorPoll
    \/ ServiceAdvance
    \/ ExceptClause
    \/ FinallyClause

MonitorSpec == InitMonitor /\ [][NextMonitor]_vars

\* The script keeps executing; nothing is assumed of the service.
FairMonitorSpec == MonitorSpec /\ WF_vars(Program)

\* The script keeps executing, every run the service holds goes on to a terminal
\* status, and a run that is fetched again and again is fetched successfully
\* at some point.
LiveMonitorSpec ==
    /\ FairMonitorSpec
    /\ WF_vars(ServiceAdvance)
    /\ \A id \in NewIds :
          SF_vars(MonitorPoll /\ lastFetch'.id = id /\ lastFetch'.outcome = "ok")

\* ====================================================================
\* Properties
\* ====================================================================
Range(seq) == {seq[j] : j \in 1..Len(seq)}

\* The runs the deduplication loop has consumed so far (all of them once the
\* loop is exhausted).
Consumed == {runs[j] : j \in 1..(i - 1)}
SlotMates(run) == {r \in Consumed : Key(r) = Key(run)}
Kept == Range(Values(run_map))
DedupFinished == pc = "retry"

NoFailedMsg == "No failed runs detected in the last 500 runs."
NothingMsg == "Nothing to do."

\* --------------------------------------------------------------- C1
\* C1: the deduplication pass never faults, and once it is finished no kept
\* representative is an unstarted run whose slot also holds a started run.
C1_UnstartedNeverPreferred ==
    /\ exc # "TypeError"
    /\ DedupFinished =>
         \A rep \in Kept :
            rep.started_at = None => \A r \in SlotMates(rep) : r.started_at = None

\* --------------------------------------------------------------- C2
\* C2: at every point of the deduplication pass, and after it, run_map holds
\* exactly one run per distinct scheduled-for value of the runs consumed, each
\* kept run is one of the consumed runs of its slot, and in a slot whose
\* consumed runs all have a started-at the kept run has the latest one.
C2_OnePerSlotLatestStarted ==
    /\ \A a, b \in 1..Len(run_map) : run_map[a].key = run_map[b].key => a = b
    /\ {run_map[j].key : j \in 1..Len(run_map)} = {Key(r) : r \in Consumed}
    /\ \A j \in 1..Len(run_map) :
         LET rep == run_map[j].run
         IN  /\ rep \in Consumed
             /\ Key(rep) = run_map[j].key
             /\ (\A r \in SlotMates(rep) : r.started_at # None) =>
                   \A r \in SlotMates(rep) : r.started_at <= rep.started_at

\* Witness: the pass is finished, and in some slot of two started runs the later
\* one, fetched second, has replaced the earlier one.
C2_Witness ==
    /\ DedupFinished
    /\ Len(runs) = 2
    /\ Key(runs[1]) = Key(runs[2])
    /\ runs[1].started_at # None
    /\ runs[2].started_at > runs[1].started_at
    /\ Kept = {runs[2]}

\* --------------------------------------------------------------- C3
\* C3: no retry request is issued for a run whose slot holds a fetched run with
\* status "success" (run ids are positions in the fetched list).
C3_NoRetryOfSucceededSlot ==
    runs # <<>> =>
      \A id \in Range(retryReqs) :
         \A r \in Range(runs) : Key(r) = Key(runs[id]) => r.status # "success"

\* --------------------------------------------------------------- C4
\* C4: every retry request names a representative held in run_map whose status
\* is "failed"; nothing else is ever retried.
C4_RetryOnlyFailedRepresentatives ==
    [][retryReqs' # retryReqs =>
         \E rep \in Kept : /\ rep.status = "failed"
                           /\ rep.status \notin {"success", "scheduled", "running"}
                           /\ retryReqs' = Append(retryReqs, rep.id)]_vars

\* Witness: the retry loop is over, one representative was retried and another,
\* not failed, was passed over.
C4_Witness ==
    /\ pc = "retry"
    /\ k > Len(run_map)
    /\ Len(run_map) = 2
    /\ Len(retryReqs) = 1
    /\ \E rep \in Kept : rep.status # "failed"

\* --------------------------------------------------------------- C5
\* C5: while _monitor_runs is running its active list is exactly the given runs
\* not yet observed in a terminal status by a successful fetch, and it returns
\* normally (line 70 fails) only when every given run has been so observed.
GivenIds == DOMAIN svc
ActiveIds == {r.id : r \in Range(retried_runs)}
InMonitor == pc \in {"while", "for"}

C5_ReturnOnlyWhenAllTerminal ==
    /\ [](InMonitor => ActiveIds = GivenIds \ terminalSeen)
    /\ [][(InMonitor /\ ~InMonitor' /\ exc' = "none") =>
            (GivenIds # {} /\ GivenIds \subseteq terminalSeen)]_vars

\* Witness: _monitor_runs has returned normally after polling two runs.
C5_Witness ==
    /\ pc = "finally"
    /\ exc = "none"
    /\ Cardinality(GivenIds) = 2
    /\ terminalSeen = GivenIds
    /\ retried_runs = <<>>

\* --------------------------------------------------------------- C6
\* C6, first part: in an iteration of the polling loop the active list changes only by
\* losing the run just fetched, and only when that fetch succeeded with a
\* terminal status; after a 404 or another ApiException the list is unchanged,
\* no exception is in flight and the loop goes on with the run still active.
C6_RemoveOnlyOnTerminalFetch ==
    [][(pc = "for" /\ it' # it) =>
         LET f == lastFetch'
             run == retried_runs[it]
         IN  /\ f.id = run.id
             /\ f.outcome \in {"api404", "apiErr"} =>
                   /\ retried_runs' = retried_runs
                   /\ pc' = "for"
                   /\ exc' = "none"
                   /\ run \in Range(retried_runs')
             /\ retried_runs' # retried_runs =>
                   /\ f.outcome = "ok"
                   /\ f.status \in Terminal
                   /\ Range(retried_runs') = Range(retried_runs) \ {run}
                   /\ Len(retried_runs') = Len(retried_runs) - 1]_vars

\* C6, second part: a run whose fetch failed with 404 or another ApiException is
\* fetched again later, unless polling is aborted by an exception of another
\* class (which leaves _monitor_runs).
C6_FetchedAgain ==
    \A id \in (MaxRuns + 1)..(2 * MaxRuns) :
       (InMonitor /\ id \in stale) ~> (id \notin stale \/ ~InMonitor)

\* C6: both parts.
C6_FailedFetchKeepsRunActive == C6_RemoveOnlyOnTerminalFetch /\ C6_FetchedAgain

\* Witness: a run whose fetch failed is still active while another run has been
\* removed after a terminal observation.
C6_Witness ==
    /\ pc = "for"
    /\ lastFetch.outcome \in {"api404", "apiErr"}
    /\ lastFetch.id \in ActiveIds
    /\ terminalSeen # {}

\* --------------------------------------------------------------- C7
\* C7: when no representative of the deduplicated set is failed, no retry
\* request is issued, polling is never entered (no get_run), and the function
\* ends by reporting that no failed runs were detected.
NoFailedRep == \A rep \in Kept : rep.status # "failed"

C7_NoFailedNoRetryNoPoll ==
    /\ [](NoFailedMsg \in out => retryReqs = <<>> /\ polled = {} /\ ~InMonitor)
    /\ [][(DedupFinished /\ NoFailedRep) =>
            /\ retryReqs' = <<>>
            /\ polled' = {}
            /\ pc' \in {"retry", "finally"}
            /\ exc' = "none"
            /\ pc' = "finally" => NoFailedMsg \in out']_vars

\* Witness: a non-empty deduplicated set without a failed run has been reported.
C7_Witness ==
    /\ NoFailedMsg \in out
    /\ listCalls = 1
    /\ pc = "exit"
    /\ client = "closed"

\* --------------------------------------------------------------- C8
\* C8: without --all-failed no call reaches the service, and once tasks_retry
\* has run the only report is "Nothing to do.".
C8_FlagUnsetNoServiceCalls ==
    ~args.all_failed =>
       /\ listCalls = 0
       /\ retryReqs = <<>>
       /\ polled = {}
       /\ svc = <<>>
       /\ pc \notin {"get_runs", "dedup", "retry", "while", "for"}
       /\ (client # "unbound" /\ pc \in {"finally", "exit"}) =>
             out = {NothingMsg} /\ exc = "none"

\* Witness: an invocation without the flag has ended.
C8_Witness ==
    /\ ~args.all_failed
    /\ pc = "exit"
    /\ client = "closed"
    /\ out = {NothingMsg}

\* --------------------------------------------------------------- C9
\* C9: every invocation that reached the client-opening step ends with no client
\* left open and with a release step (client.close() of the finally block)
\* that did not fault.
C9_ClientReleasedOnEveryPath ==
    pc = "exit" => (client # "open" /\ ~closeFault)

\* --------------------------------------------------------------- C10
\* C10: when the invocation has ended after a retry request failed with an
\* ApiException, every failed representative has still received its retry
\* request and every run created by a successful request has been polled to a
\* terminal status.
C10_RetryFailureDoesNotStopBatch ==
    (pc = "exit" /\ exc = "ApiException" /\ retryReqs # <<>>) =>
       /\ \A rep \in Kept : rep.status = "failed" => rep.id \in Range(retryReqs)
       /\ GivenIds \subseteq terminalSeen

\* --------------------------------------------------------------- C11
\* C11: _print_task_run never faults; a run that lacks started-at or finished-at
\* gets a summary line all the same, and in list mode every run consumed that
\* passes the filter has its line.
ListMode == ~Truthy(args.run_id)
Listed == {runs[j] : j \in 1..(i - 1)}
PrintedIds == [j \in 1..Len(printed) |-> printed[j].id]

C11_SummaryWithoutTimestamps ==
    /\ exc # "TypeError"
    /\ ListMode =>
         \A r \in Listed : FilterTest(r, args.after) = "show" => r.id \in Range(PrintedIds)

\* --------------------------------------------------------------- C12
\* C12: in list mode the lines printed are, in the order received, those of the
\* runs consumed whose scheduled-for is at or after the threshold, or of all of
\* them when no threshold is given; a threshold that does not parse shows none.
HasThreshold == Truthy(args.after)
ShouldShow(r) ==
    IF HasThreshold THEN Parses(args.after) /\ r.scheduled_for >= Strptime(args.after)
    ELSE TRUE
ConsumedList == SubSeq(runs, 1, i - 1)
RECURSIVE ShownIds(_)
ShownIds(seq) ==
    IF seq = <<>> THEN <<>>
    ELSE LET rest == ShownIds(SubSeq(seq, 1, Len(seq) - 1))
             last == seq[Len(seq)]
         IN  IF ShouldShow(last) THEN Append(rest, last.id) ELSE rest

GetRunsReturned ==
    /\ listCalls = 1
    /\ exc # "ApiException"
    /\ "Unable to connect to InfluxDB" \notin out

C13_BadThresholdAlwaysFails ==
    (/\ ListMode
     /\ args.after # Absent
     /\ ~Parses(args.after)
     /\ pc = "exit"
     /\ GetRunsReturned)
       => (exc = "ValueError" /\ printed = <<>>)

\* --------------------------------------------------------------- C20
\* C20: every line printed for a run with both timestamps, finished-at not
\* before started-at, shows finished-at minus started-at in seconds (run ids are
\* positions in the fetched list).
C20_DurationIsWholeDifference ==
    \A j \in 1..Len(printed) :
       LET r == runs[printed[j].id]
       IN  (CanPrint(r) /\ r.finished_at >= r.started_at)
              => printed[j].duration = r.finished_at - r.started_at

\* In a whole invocation _monitor_runs is entered with what InitMonitor gives it:
\* the new runs in the order of their creation, each held by the service, and
\* nothing polled yet.
MonitorEntryShape ==
    (pc = "while" /\ cycle = NoCycle) =>
       /\ Len(retried_runs) \in 1..MaxRuns
       /\ \A j \in 1..Len(retried_runs) :
             /\ retried_runs[j].id = MaxRuns + j
             /\ retried_runs[j].status = "scheduled"
       /\ DOMAIN svc = (MaxRuns + 1)..(MaxRuns + Len(retried_runs))
       /\ polled = {} /\ terminalSeen = {} /\ stale = {} /\ lastFetch = NoFetch
       /\ exc = "none" /\ client = "open" /\ evt = "sleep(1)"

\* --------------------------------------------------------------- C14
\* C14: with every run going on to a terminal status at the service and kept
\* there, and every run's fetch succeeding again and again (so no fetch ends in
\* a NewConnectionError, which no handler of _monitor_runs catches),
\* _monitor_runs returns with the active list empty.
C14_MonitorTerminates ==
    [](lastFetch.outcome # "connErr") =>
       (InMonitor ~> (pc = "finally" /\ retried_runs = <<>> /\ exc = "none"))

\* Witness: polling of as many runs as the bounds allow has ended with the
\* list empty.
C14_Witness ==
    /\ pc = "exit"
    /\ exc = "none"
    /\ retried_runs = <<>>
    /\ polled = GivenIds
    /\ Len(retryReqs) = MaxRuns
    /\ "Unable to connect to InfluxDB" \notin out

\* --------------------------------------------------------------- C15
\* C15: when a pass of the for loop of line 71 ends, every run that was in the
\* list when the pass began has been fetched exactly once in that pass.
C15_EachActiveRunFetchedOncePerCycle ==
    [][(pc = "for" /\ pc' = "while") =>
          \A id \in cycle.active :
             Cardinality({j \in 1..Len(cycle.fetched) : cycle.fetched[j] = id}) = 1]_vars

\* --------------------------------------------------------------- C16
\* Lines 19-25 as a function of the fetched list: the loop of DedupStep run
\* over the first n runs of list, giving the exception raised, if any, and
\* run_map as the loop leaves it.
RECURSIVE DedupPass(_, _)
DedupPass(list, n) ==
    IF n = 0 THEN [exc |-> "none", run_map |-> <<>>]
    ELSE LET before == DedupPass(list, n - 1)
             run == list[n]
             run_scheduled_for == Key(run)
         IN  IF before.exc # "none" THEN before
             ELSE IF ~HasKey(before.run_map, run_scheduled_for)
             THEN [exc |-> "none", run_map |-> Put(before.run_map, run_scheduled_for, run)]
             ELSE LET t == ReplaceTest(run, Get(before.run_map, run_scheduled_for))
                  IN  IF t = "TypeError"
                      THEN [exc |-> "TypeError", run_map |-> before.run_map]
                      ELSE IF t = "replace"
                      THEN [exc |-> "none",
                            run_map |-> Put(before.run_map, run_scheduled_for, run)]
                      ELSE before

\* DedupPass is the loop: what DedupStep has built after i - 1 runs, and the
\* TypeError it ends with.
DedupPassIsTheLoop ==
    /\ pc \in {"dedup", "retry"} => run_map = DedupPass(runs, i - 1).run_map
    /\ (pc = "dedup" /\ i <= Len(runs)) =>
          (ENABLED (DedupStep /\ exc' = "TypeError")
             <=> DedupPass(runs, i).exc = "TypeError")

\* What the pass leaves for the retry loop: the run kept for each slot, or the
\* exception that ended the pass.
DedupResult(list) ==
    LET d == DedupPass(list, Len(list))
    IN  IF d.exc # "none" THEN [exc |-> d.exc, kept |-> {}]
        ELSE [exc |-> "none", kept |-> Range(d.run_map)]

Permuted(list, p) == [j \in 1..Len(list) |-> list[p[j]]]

\* C16: the deduplication pass gives the same result on the fetched list and on
\* every permutation of it.
C16_DedupOrderIndependent ==
    (pc = "dedup" /\ i = 1) =>
       \A p \in Permutations(1..Len(runs)) :
          DedupResult(Permuted(runs, p)) = DedupResult(runs)

\* --------------------------------------------------------------- C17
\* The scheduled-for values of a list in the order of their first appearance.
RECURSIVE FirstAppearance(_)
FirstAppearance(seq) ==
    IF seq = <<>> THEN <<>>
    ELSE LET before == FirstAppearance(SubSeq(seq, 1, Len(seq) - 1))
             key == Key(seq[Len(seq)])
         IN  IF key \in Range(before) THEN before ELSE Append(before, key)

\* The identifiers of the failed runs among the first n entries of run_map, in
\* the order of the map.
RECURSIVE FailedIds(_)
FailedIds(n) ==
    IF n = 0 THEN <<>>
    ELSE IF run_map[n].run.status = "failed"
         THEN Append(FailedIds(n - 1), run_map[n].run.id)
         ELSE FailedIds(n - 1)

\* C17: the retry loop goes through run_map in the order in which the slots
\* first appear in the fetched list; the requests issued so far are those of
\* the failed representatives passed so far, one each, in that order, naming
\* the old run; every request that returns is followed by the wait of line 32
\* before anything else is requested; when the loop ends there are as many
\* requests as failed representatives.
C17_OneRetryPerFailedRepInOrder ==
    /\ [](pc = "retry" =>
            /\ [j \in 1..Len(run_map) |-> run_map[j].key] = FirstAppearance(runs)
            /\ retryReqs = FailedIds(k - 1))
    /\ [][(retryReqs' # retryReqs /\ exc' = "none") =>
            /\ evt' = "sleep(1)"
            /\ retryReqs # <<>> => evt = "sleep(1)"]_vars
    /\ [][(pc = "retry" /\ pc' \notin {"retry", "except"}) =>
            Len(retryReqs) = Cardinality({rep \in Kept : rep.status = "failed"})]_vars

\* Witness: two failed representatives have been retried in map order, the
\* wait of line 32 has followed the last request, and the loop is over.
C17_Witness ==
    /\ pc = "retry"
    /\ k > Len(run_map)
    /\ Len(run_map) = 2
    /\ retryReqs = <<run_map[1].run.id, run_map[2].run.id>>
    /\ Len(retried_runs) = 2
    /\ evt = "sleep(1)"

\* --------------------------------------------------------------- C18
\* The runs fetched by get_runs carry the identifiers 1..MaxRuns; the runs the
\* retry requests of this invocation returned are those the service holds
\* (GivenIds).
OriginalIds == 1..MaxRuns

\* C18: a get_run is issued only in the polling loop, after which no retry
\* request follows; _monitor_runs is entered with every new run returned by the
\* retry requests; only those runs are ever polled, never an original run; and
\* when polling returns every one of them has been polled.
C18_PollsExactlyTheNewRuns ==
    /\ [](polled \subseteq GivenIds /\ polled \cap OriginalIds = {})
    /\ [](polled # {} => pc \notin {"open", "dispatch", "get_runs", "dedup", "retry"})
    /\ [][polled' # polled => (pc = "for" /\ retryReqs' = retryReqs)]_vars
    /\ [][retryReqs' # retryReqs => (polled = {} /\ polled' = {})]_vars
    /\ [][(pc = "retry" /\ pc' = "while") =>
            /\ ActiveIds' = GivenIds
            /\ Cardinality(GivenIds) = Len(retryReqs)
            /\ polled = {}]_vars
    /\ [][(InMonitor /\ ~InMonitor' /\ exc' = "none") => polled' = GivenIds]_vars

\* Witness: the invocation has ended normally after polling both new runs, the
\* second one after the first was removed.
C18_Witness ==
    /\ pc = "exit"
    /\ exc = "none"
    /\ client = "closed"
    /\ Len(retryReqs) = 2
    /\ polled = GivenIds
    /\ Cardinality(polled) = 2
    /\ Len(cycle.fetched) = 1

\* --------------------------------------------------------------- C19
\* C19: within a pass of the for loop a fetch that is not the first of the
\* pass follows the fetch before it with no wait between them, and one wait
\* separates the end of a pass from the first fetch of the next.
C19_WaitOnlyBetweenCycles ==
    [][(pc = "for" /\ it' = it + 1) =>
          /\ (it > 1 /\ cycle.fetched # <<>>) => evt # "sleep(2)"
          /\ (cycle.fetched = <<>> /\ polled # {}) => evt = "sleep(2)"]_vars

====
